---- MODULE Spec2Model ----
(***************************************************************************)
(* BaseApiService (src/base-api-client.js): a static HTTP client.  Each    *)
(* invocation builds a URL, headers and a body, hands one request to       *)
(* fetch, awaits the response, awaits the parsed body and then returns it  *)
(* or throws.  Invocations are async functions: they suspend at            *)
(* `await fetch(...)` and at `await response.json()`.                      *)
(***************************************************************************)
EXTENDS Integers, Sequences, FiniteSets

\* Largest number of entries in a caller-supplied object (query, headers, data).
MaxKeys == 2
\* Number of invocations that may be in flight at once.
MaxCalls == 2

Calls == 1..MaxCalls

(***************************************************************************)
(* JavaScript values.  Every value is a record of one shape: t is the      *)
(* type tag, v the text of a primitive, props the own enumerable           *)
(* properties of an object as <<key, value>> pairs in insertion order.     *)
(***************************************************************************)
Undefined == [t |-> "undefined", v |-> "", props |-> <<>>]
Null == [t |-> "null", v |-> "", props |-> <<>>]
Str(s) == [t |-> "string", v |-> s, props |-> <<>>]
Num(s) == [t |-> "number", v |-> s, props |-> <<>>]
File(s) == [t |-> "file", v |-> s, props |-> <<>>]
Obj(p) == [t |-> "object", v |-> "", props |-> p]

\* String(value), the conversion URLSearchParams.append, FormData.append and
\* the Error constructor apply to a value that is not already a string.
JSString(x) ==
  CASE x.t = "string" -> x.v
    [] x.t = "number" -> x.v
    [] x.t = "undefined" -> "undefined"
    [] x.t = "null" -> "null"
    [] x.t = "file" -> "[object File]"
    [] OTHER -> "[object Object]"

\* ToBoolean, as applied by `||` and `if (...)`.
Truthy(x) ==
  CASE x.t = "undefined" -> FALSE
    [] x.t = "null" -> FALSE
    [] x.t = "string" -> x.v # ""
    [] x.t = "number" -> x.v # "0"
    [] OTHER -> TRUE

\* The numeric value of a property key that is a canonical array index,
\* -1 for every other key.
KeyIndex(k) ==
  CASE k = "1" -> 1
    [] k = "2" -> 2
    [] k = "10" -> 10
    [] OTHER -> -1

IsIndexKey(k) == KeyIndex(k) >= 0

RECURSIVE AscendingKeys(_)
AscendingKeys(S) ==
  IF S = {} THEN <<>>
  ELSE LET m == CHOOSE k \in S : \A j \in S : KeyIndex(k) <= KeyIndex(j)
       IN <<m>> \o AscendingKeys(S \ {m})

InsertionKeys(o) == [i \in 1..Len(o.props) |-> o.props[i][1]]

\* Object.keys(o): array-index keys in ascending numeric order, then the
\* other keys in insertion order.
ObjectKeys(o) ==
  LET ks == InsertionKeys(o)
      idx == {ks[i] : i \in {j \in 1..Len(ks) : IsIndexKey(ks[j])}}
  IN AscendingKeys(idx) \o SelectSeq(ks, LAMBDA k : ~IsIndexKey(k))

HasKey(o, k) == \E i \in 1..Len(o.props) : o.props[i][1] = k

\* o[k] for a value that is not null or undefined.
Get(o, k) ==
  IF HasKey(o, k)
  THEN o.props[CHOOSE i \in 1..Len(o.props) : o.props[i][1] = k][2]
  ELSE Undefined

\* o[k] = x: an existing key keeps its position, a new key goes last.
SetProp(o, k, x) ==
  IF HasKey(o, k)
  THEN Obj([i \in 1..Len(o.props) |->
             IF o.props[i][1] = k THEN <<k, x>> ELSE o.props[i]])
  ELSE Obj(Append(o.props, <<k, x>>))

RECURSIVE CopyProps(_, _, _)
CopyProps(target, src, keys) ==
  IF keys = <<>> THEN target
  ELSE CopyProps(SetProp(target, Head(keys), Get(src, Head(keys))), src, Tail(keys))

\* { ...target, ...src } continued on an object under construction; spreading
\* undefined copies nothing.
Spread(target, src) == CopyProps(target, src, ObjectKeys(src))

(***************************************************************************)
(* URLs, requests, responses, errors.                                      *)
(***************************************************************************)
DefaultOrigin == "http://localhost:3001"

\* process.env.API_URL || "http://localhost:3001"
BaseOrigin(apiUrl) == IF Truthy(apiUrl) THEN apiUrl.v ELSE DefaultOrigin

\* An endpoint is [origin, path]: origin is "" for a relative reference and the
\* endpoint's own origin for an absolute URL.
\* new URL(endpoint, base): an absolute endpoint keeps its own origin.
NewURL(endpoint, base) ==
  [origin |-> IF endpoint.origin # "" THEN endpoint.origin ELSE base,
   path |-> endpoint.path,
   searchParams |-> <<>>]

\* url.searchParams.append(key, value)
SearchParamsAppend(url, key, value) ==
  [url EXCEPT !.searchParams = Append(@, <<key, JSString(value)>>)]

RECURSIVE AppendQuery(_, _, _)
\* The forEach over Object.keys(rcfg.query) in get: undefined values are skipped.
AppendQuery(url, query, keys) ==
  IF keys = <<>> THEN url
  ELSE LET key == Head(keys)
           next == IF Get(query, key) # Undefined
                   THEN SearchParamsAppend(url, key, Get(query, key))
                   ELSE url
       IN AppendQuery(next, query, Tail(keys))

JsonContentType == Obj(<< <<"Content-Type", Str("application/json")>> >>)

\* getHeaders with the merge reversed: { ...headers, "Content-Type": ... }.
getHeaders_callerFirst(headers) == Spread(Spread(Obj(<<>>), headers), JsonContentType)

\* static getHeaders(headers): { "Content-Type": "application/json", ...headers }
getHeaders(headers) == Spread(JsonContentType, headers)

\* The fixed pair of withCredentials.
credentialHeaders ==
  Obj(<< <<"Content-Type", Str("application/json")>>, <<"credentials", Str("include")>> >>)

\* baseFn with the merge reversed: { ...headers, ...rcfg.headers }.
baseFnConfig_callerLast(rcfg) ==
  [rcfg EXCEPT !.headers = Spread(Spread(Obj(<<>>), credentialHeaders), rcfg.headers)]

\* The argument baseFn passes on: { ...rcfg, headers: { ...rcfg.headers, ...headers } }
baseFnConfig(rcfg) ==
  [rcfg EXCEPT !.headers = Spread(Spread(Obj(<<>>), rcfg.headers), credentialHeaders)]

RECURSIVE JsonValue(_)
RECURSIVE JsonProps(_, _)
\* The properties JSON.stringify writes for an object: own keys in Object.keys
\* order, properties whose value is undefined left out.
JsonProps(o, keys) ==
  IF keys = <<>> THEN <<>>
  ELSE LET x == Get(o, Head(keys))
       IN (IF x = Undefined THEN <<>> ELSE << <<Head(keys), JsonValue(x)>> >>)
          \o JsonProps(o, Tail(keys))

\* The JSON value the text JSON.stringify(x) denotes, for x not undefined.
JsonValue(x) ==
  CASE x.t = "object" -> Obj(JsonProps(x, ObjectKeys(x)))
    [] x.t = "file" -> Obj(<<>>)
    [] OTHER -> x

NoBody == [kind |-> "none", json |-> Undefined, fields |-> <<>>]

\* body: JSON.stringify(rcfg.data); JSON.stringify(undefined) is undefined,
\* and fetch sends no body then.
JsonBody(data) ==
  IF data = Undefined THEN NoBody
  ELSE [kind |-> "json", json |-> JsonValue(data), fields |-> <<>>]

\* formData.append(key, value): a File is kept, anything else becomes a string.
FormDataAppend(fields, key, value) ==
  Append(fields, <<key, IF value.t = "file" THEN value ELSE Str(JSString(value))>>)

RECURSIVE FormFields_skipUndefined(_, _, _)
\* The upload loop with the undefined check of get's query loop.
FormFields_skipUndefined(fields, data, keys) ==
  IF keys = <<>> THEN fields
  ELSE FormFields_skipUndefined(
         IF Get(data, Head(keys)) # Undefined
         THEN FormDataAppend(fields, Head(keys), Get(data, Head(keys)))
         ELSE fields,
         data, Tail(keys))

RECURSIVE FormFields(_, _, _)
\* The forEach over Object.keys(rcfg.data) in upload.
FormFields(fields, data, keys) ==
  IF keys = <<>> THEN fields
  ELSE FormFields(FormDataAppend(fields, Head(keys), Get(data, Head(keys))),
                  data, Tail(keys))

FormBody(data) ==
  [kind |-> "form", json |-> Undefined, fields |-> FormFields(<<>>, data, ObjectKeys(data))]

NoURL == [origin |-> "", path |-> "", searchParams |-> <<>>]
NoResponse ==
  [status |-> 0, statusText |-> "", url |-> NoURL, isJson |-> FALSE, json |-> Undefined]

\* ok as a test for status 200 alone.
ok_only200(response) == response.status = 200

\* Response.ok
ok(response) == response.status \in 200..299

NoCause == [status |-> 0, statusText |-> "", url |-> NoURL, errors |-> Undefined]
NoError == [name |-> "", message |-> "", hasCause |-> FALSE, cause |-> NoCause]

\* new Error(message, { cause }): an undefined message leaves message "".
NewError(message, cause) ==
  [name |-> "Error",
   message |-> IF message = Undefined THEN "" ELSE JSString(message),
   hasCause |-> TRUE,
   cause |-> cause]

\* What response.json() rejects with for a body that is not JSON.
SyntaxError ==
  [name |-> "SyntaxError", message |-> "Unexpected token", hasCause |-> FALSE, cause |-> NoCause]
\* Reading a property of null.
TypeError ==
  [name |-> "TypeError", message |-> "Cannot read properties of null",
   hasCause |-> FALSE, cause |-> NoCause]
\* What fetch rejects with when the exchange cannot be completed.
NetworkError ==
  [name |-> "TypeError", message |-> "fetch failed", hasCause |-> FALSE, cause |-> NoCause]

Pending == [kind |-> "pending", value |-> Undefined, error |-> NoError]
Returned(x) == [kind |-> "returned", value |-> x, error |-> NoError]
Thrown(e) == [kind |-> "thrown", value |-> Undefined, error |-> e]

\* handleResponse classifying the status before it reads the body.
handleResponse_statusFirst(response) ==
  IF ~ok(response)
  THEN Thrown(NewError(IF response.isJson /\ response.json # Null
                       THEN Get(response.json, "message") ELSE Undefined,
                       [status |-> response.status, statusText |-> response.statusText,
                        url |-> response.url,
                        errors |-> IF response.isJson /\ response.json # Null
                                   THEN Get(response.json, "errors") ELSE Undefined]))
  ELSE IF ~response.isJson THEN Thrown(SyntaxError)
  ELSE Returned(response.json)

\* static async handleResponse(response), from the moment response.json() settles.
handleResponse(response) ==
  IF ~response.isJson THEN Thrown(SyntaxError)
  ELSE IF ~ok(response)
       THEN IF response.json = Null
            THEN Thrown(TypeError)
            ELSE Thrown(NewError(Get(response.json, "message"),
                                 [status |-> response.status,
                                  statusText |-> response.statusText,
                                  url |-> response.url,
                                  errors |-> Get(response.json, "errors")]))
       ELSE Returned(response.json)

(***************************************************************************)
(* The inputs the model draws from.                                        *)
(***************************************************************************)
\* Objects with at most n entries, keys (distinct) from K in every insertion
\* order, values from V.
Objects(K, V, n) ==
  LET keySeqs == {ks \in UNION {[1..m -> K] : m \in 0..n} :
                    \A i, j \in DOMAIN ks : ks[i] = ks[j] => i = j}
  IN UNION {{Obj([i \in DOMAIN ks |-> <<ks[i], vs[i]>>]) : vs \in [DOMAIN ks -> V]} :
            ks \in keySeqs}

RelativeEndpoint == [origin |-> "", path |-> "/users"]
AbsoluteEndpoint == [origin |-> "https://cdn.example.com", path |-> "/files"]

Queries == Objects({"page", "2", "10"}, {Str("2"), Undefined}, MaxKeys) \cup {Undefined}
HeaderMaps ==
  Objects({"Content-Type", "credentials", "X-Trace"}, {Str("text/plain"), Str("omit")}, MaxKeys)
    \cup {Undefined}
DataMaps == Objects({"name", "1"}, {Str("Ada"), Num("5"), Undefined, File("a.png")}, MaxKeys)

SomeData == Obj(<< <<"name", Str("Ada")>> >>)
SomeQuery == Obj(<< <<"page", Str("2")>>, <<"limit", Undefined>> >>)

\* RequestConfig values (lines 10-16): one field ranges over all its values
\* while the others take a fixed one.
Configs ==
  {[endpoint |-> RelativeEndpoint, data |-> SomeData, headers |-> Undefined, query |-> q] :
     q \in Queries}
  \cup {[endpoint |-> RelativeEndpoint, data |-> SomeData, headers |-> h, query |-> SomeQuery] :
          h \in HeaderMaps}
  \cup {[endpoint |-> RelativeEndpoint, data |-> d, headers |-> Undefined, query |-> Undefined] :
          d \in DataMaps \cup {Undefined}}
  \cup {[endpoint |-> AbsoluteEndpoint, data |-> SomeData, headers |-> Undefined,
         query |-> SomeQuery]}

NoConfig ==
  [endpoint |-> [origin |-> "", path |-> ""], data |-> Undefined, headers |-> Undefined,
   query |-> Undefined]

Methods == {"get", "post", "put", "patch", "delete"}

ApiUrls == {Undefined, Str(""), Str("https://api.example.com")}

ErrorBody ==
  Obj(<< <<"message", Str("invalid name")>>,
         <<"errors", Obj(<< <<"name", Str("required")>> >>)>> >>)
Envelope == Obj(<< <<"message", Str("ok")>>, <<"data", Obj(<< <<"id", Num("7")>> >>)>> >>)

\* Response bodies: [isJson, json].
NotJson == [isJson |-> FALSE, json |-> Undefined]
Bodies ==
  {NotJson} \cup {[isJson |-> TRUE, json |-> j] : j \in {Null, Obj(<<>>), ErrorBody, Envelope}}

Statuses == {200, 299, 300, 404}
StatusTexts ==
  [st \in Statuses |->
     CASE st = 200 -> "OK" [] st = 300 -> "Multiple Choices" [] st = 404 -> "Not Found"
       [] OTHER -> ""]

RedirectedURL == [origin |-> "https://www.example.com", path |-> "/moved", searchParams |-> <<>>]

\* The responses the transport may answer a request to `url` with; response.url
\* is the URL of the final response, which a redirect changes.
Responses(url) ==
  {[status |-> st, statusText |-> StatusTexts[st], url |-> url,
    isJson |-> b.isJson, json |-> b.json] : st \in DOMAIN StatusTexts, b \in Bodies}
  \cup {[status |-> st, statusText |-> StatusTexts[st], url |-> RedirectedURL,
         isJson |-> TRUE, json |-> ErrorBody] : st \in DOMAIN StatusTexts}

\* The responses drawn when several invocations are in flight.
FewResponses(url) ==
  {r \in Responses(url) :
     /\ r.url = url
     /\ \/ r.status = 200 /\ r.json \in {Undefined, Envelope}
        \/ r.status = 404 /\ r.json = ErrorBody}

(***************************************************************************)
(* State.                                                                  *)
(***************************************************************************)
VARIABLES
  apiUrl,     \* process.env.API_URL
  pc,         \* where each invocation is: "idle", "fetch", "json", "done"
  invoked,    \* the static method each invocation runs and the rcfg it received
  wrapped,    \* for a call made through withCredentials(), the caller's rcfg
  requests,   \* the requests each invocation handed to fetch, in order
  response,   \* the response each invocation's fetch resolved with
  result      \* how each invocation settled: pending, returned or thrown

vars == <<apiUrl, pc, invoked, wrapped, requests, response, result>>

NotInvoked == [op |-> "", rcfg |-> NoConfig]
NotWrapped == [used |-> FALSE, rcfg |-> NoConfig]

\* No invocation of `calls` has started.
NoneStarted(calls) ==
  /\ pc = [c \in calls |-> "idle"]
  /\ invoked = [c \in calls |-> NotInvoked]
  /\ wrapped = [c \in calls |-> NotWrapped]
  /\ requests = [c \in calls |-> <<>>]
  /\ response = [c \in calls |-> NoResponse]
  /\ result = [c \in calls |-> Pending]

Init == apiUrl \in ApiUrls /\ NoneStarted({1})

\* await fetch(url, { method, headers, body }): the request goes to the
\* transport and the invocation suspends.
fetch(c, method, url, headers, body) ==
  /\ requests' =
       [requests EXCEPT ![c] =
          Append(@, [method |-> method, url |-> url, headers |-> headers, body |-> body])]
  /\ pc' = [pc EXCEPT ![c] = "fetch"]

\* The part of every static method before its first await, given what it sends.
Invoke(c, op, rcfg, method, url, body) ==
  /\ pc[c] = "idle"
  /\ invoked' = [invoked EXCEPT ![c] = [op |-> op, rcfg |-> rcfg]]
  /\ fetch(c, method, url, getHeaders(rcfg.headers), body)
  /\ UNCHANGED <<apiUrl, response, result>>

\* get's URL without the undefined check.
getURL_keepUndefined(rcfg) ==
  LET url == NewURL(rcfg.endpoint, BaseOrigin(apiUrl))
      keys == ObjectKeys(rcfg.query)
  IN [url EXCEPT !.searchParams =
        [i \in 1..Len(keys) |-> <<keys[i], JSString(Get(rcfg.query, keys[i]))>>]]

\* Lines 36-46: the URL get requests.
getURL(rcfg) ==
  LET url == NewURL(rcfg.endpoint, BaseOrigin(apiUrl))
  IN IF Truthy(rcfg.query)
     THEN AppendQuery(url, rcfg.query, ObjectKeys(rcfg.query))
     ELSE url

get(c, rcfg) == Invoke(c, "get", rcfg, "GET", getURL(rcfg), NoBody)

post(c, rcfg) ==
  Invoke(c, "post", rcfg, "POST", NewURL(rcfg.endpoint, BaseOrigin(apiUrl)),
         JsonBody(rcfg.data))

put(c, rcfg) ==
  Invoke(c, "put", rcfg, "PUT", NewURL(rcfg.endpoint, BaseOrigin(apiUrl)),
         JsonBody(rcfg.data))

patch(c, rcfg) ==
  Invoke(c, "patch", rcfg, "PATCH", NewURL(rcfg.endpoint, BaseOrigin(apiUrl)),
         JsonBody(rcfg.data))

delete(c, rcfg) ==
  Invoke(c, "delete", rcfg, "DELETE", NewURL(rcfg.endpoint, BaseOrigin(apiUrl)), NoBody)

upload(c, rcfg) ==
  Invoke(c, "upload", rcfg, "POST", NewURL(rcfg.endpoint, BaseOrigin(apiUrl)),
         FormBody(rcfg.data))

\* baseFn(method, rcfg): this[method]({ ...rcfg, headers: { ...rcfg.headers, ...headers } })
baseFn(c, method, rcfg) ==
  \/ method = "get" /\ get(c, baseFnConfig(rcfg))
  \/ method = "post" /\ post(c, baseFnConfig(rcfg))
  \/ method = "put" /\ put(c, baseFnConfig(rcfg))
  \/ method = "patch" /\ patch(c, baseFnConfig(rcfg))
  \/ method = "delete" /\ delete(c, baseFnConfig(rcfg))

\* A call of one of the five operations withCredentials() returns.
withCredentials(c, method, rcfg) ==
  /\ wrapped' = [wrapped EXCEPT ![c] = [used |-> TRUE, rcfg |-> rcfg]]
  /\ baseFn(c, method, rcfg)

\* The request an invocation handed to fetch last.
LastRequest(c) == requests[c][Len(requests[c])]

\* fetch's promise fulfils with a response; the method calls handleResponse,
\* which suspends at await response.json().
FetchResolve(c, r) ==
  /\ pc[c] = "fetch"
  /\ response' = [response EXCEPT ![c] = r]
  /\ pc' = [pc EXCEPT ![c] = "json"]
  /\ UNCHANGED <<apiUrl, invoked, wrapped, requests, result>>

\* fetch's promise rejects; nothing catches it, so the method's promise rejects
\* with the same error.
FetchReject(c, e) ==
  /\ pc[c] = "fetch"
  /\ result' = [result EXCEPT ![c] = Thrown(e)]
  /\ pc' = [pc EXCEPT ![c] = "done"]
  /\ UNCHANGED <<apiUrl, invoked, wrapped, requests, response>>

\* The response kept in one slot shared by all invocations.
awaitedResponse_shared(c) ==
  response[CHOOSE d \in DOMAIN pc : pc[d] \in {"json", "done"} /\ response[d] # NoResponse]

\* const response = await fetch(...): the invocation's own local.
awaitedResponse(c) == response[c]

\* response.json() settles; handleResponse finishes and the method settles with
\* what it returned or threw (return await this.handleResponse(response)).
JsonSettle(c) ==
  /\ pc[c] = "json"
  /\ result' = [result EXCEPT ![c] = handleResponse(awaitedResponse(c))]
  /\ pc' = [pc EXCEPT ![c] = "done"]
  /\ UNCHANGED <<apiUrl, invoked, wrapped, requests, response>>

\* A caller starts invocation c with one of the inputs `configs`: directly ...
CallGet(c, configs) ==
  pc[c] = "idle" /\ \E rcfg \in configs : get(c, rcfg) /\ UNCHANGED wrapped
CallPost(c, configs) ==
  pc[c] = "idle" /\ \E rcfg \in configs : post(c, rcfg) /\ UNCHANGED wrapped
CallPut(c, configs) ==
  pc[c] = "idle" /\ \E rcfg \in configs : put(c, rcfg) /\ UNCHANGED wrapped
CallPatch(c, configs) ==
  pc[c] = "idle" /\ \E rcfg \in configs : patch(c, rcfg) /\ UNCHANGED wrapped
CallDelete(c, configs) ==
  pc[c] = "idle" /\ \E rcfg \in configs : delete(c, rcfg) /\ UNCHANGED wrapped
\* ... upload with data a mapping, as upload requires ...
CallUpload(c, configs) ==
  pc[c] = "idle" /\ \E rcfg \in {r \in configs : r.data.t = "object"} :
                      upload(c, rcfg) /\ UNCHANGED wrapped
\* ... or through an operation of withCredentials().
CallWithCredentials(c, methods, configs) ==
  pc[c] = "idle" /\ \E method \in methods, rcfg \in configs : withCredentials(c, method, rcfg)

\* The transport answers the fetch of invocation c ...
TransportResponds(c, few) ==
  /\ pc[c] = "fetch"
  /\ \E r \in (IF few THEN FewResponses(LastRequest(c).url)
               ELSE Responses(LastRequest(c).url)) : FetchResolve(c, r)
\* ... or fails it.
TransportFails(c) == FetchReject(c, NetworkError)

\* One invocation, over all the inputs.
Next ==
  \/ CallGet(1, Configs)
  \/ CallPost(1, Configs)
  \/ CallPut(1, Configs)
  \/ CallPatch(1, Configs)
  \/ CallDelete(1, Configs)
  \/ CallUpload(1, Configs)
  \/ CallWithCredentials(1, Methods, Configs)
  \/ TransportResponds(1, FALSE)
  \/ TransportFails(1)
  \/ JsonSettle(1)

Spec == Init /\ [][Next]_vars

(***************************************************************************)
(* Several invocations in flight at once.  The inputs are few, so that     *)
(* identical requests are in flight together and every interleaving of     *)
(* the responses and of the body parses is explored.                       *)
(***************************************************************************)
ConcurrentConfigs ==
  {[endpoint |-> RelativeEndpoint, data |-> Undefined, headers |-> Undefined, query |-> q] :
     q \in {Undefined, SomeQuery}}

InitConcurrent == apiUrl = Undefined /\ NoneStarted(Calls)

NextConcurrent ==
  \E c \in Calls :
    \/ CallGet(c, ConcurrentConfigs)
    \/ CallWithCredentials(c, {"get"}, ConcurrentConfigs)
    \/ TransportResponds(c, TRUE)
    \/ TransportFails(c)
    \/ JsonSettle(c)

SpecConcurrent == InitConcurrent /\ [][NextConcurrent]_vars

(***************************************************************************)
(* Properties.                                                             *)
(***************************************************************************)
Started == DOMAIN pc
Issued(c) == requests[c] # <<>>
Answered(c) == pc[c] = "done" /\ response[c] # NoResponse
Success(r) == r.status >= 200 /\ r.status <= 299
Range(seq) == {seq[i] : i \in DOMAIN seq}
PositionIn(seq, x) == CHOOSE i \in DOMAIN seq : seq[i] = x

\* C1: for every operation, a response with a status outside 200-299 and a JSON
\* body makes the call throw an error whose message is the body's `message`
\* field and whose cause is {status, statusText, url} of the response plus the
\* body's `errors`.
C1_RequestFailedRaised ==
  \A c \in Started :
    (Answered(c) /\ ~Success(response[c]) /\ response[c].isJson) =>
      /\ result[c].kind = "thrown"
      /\ Str(result[c].error.message) = Get(response[c].json, "message")
      /\ result[c].error.hasCause
      /\ result[c].error.cause =
           [status |-> response[c].status, statusText |-> response[c].statusText,
            url |-> response[c].url, errors |-> Get(response[c].json, "errors")]

\* C2: for every operation, a response with a status in 200-299 and a JSON body
\* makes the call return exactly the parsed body and throw nothing.
C2_SuccessReturnsBody ==
  \A c \in Started :
    (Answered(c) /\ Success(response[c]) /\ response[c].isJson) =>
      result[c] = Returned(response[c].json)

C2_Witness ==
  \E c \in Started :
    /\ Answered(c) /\ response[c].status = 299 /\ response[c].json = Envelope
    /\ invoked[c].op = "upload"
    /\ result[c].kind = "returned"

\* The query entries whose value is not undefined, in the order provided.
ProvidedEntries(query) ==
  LET kept == SelectSeq(query.props, LAMBDA e : e[2] # Undefined)
  IN [i \in DOMAIN kept |-> <<kept[i][1], kept[i][2].v>>]

\* C3 as stated: the URL get requests is the endpoint resolved against the
\* origin (the environment value, or http://localhost:3001 when unset) followed
\* by the query entries whose value is not undefined, in the order provided.
C3_UrlInProvidedOrder ==
  \A c \in Started :
    (invoked[c].op = "get" /\ Issued(c)) =>
      LET rcfg == invoked[c].rcfg
          url == requests[c][1].url
      IN /\ url.origin =
              (IF rcfg.endpoint.origin # "" THEN rcfg.endpoint.origin
               ELSE IF apiUrl = Undefined THEN "http://localhost:3001" ELSE apiUrl.v)
         /\ url.path = rcfg.endpoint.path
         /\ url.searchParams = ProvidedEntries(rcfg.query)

\* C3 amended: the origin is the environment value when it is a non-empty
\* string and http://localhost:3001 otherwise, and the query entries whose
\* value is not undefined follow in Object.keys order: keys that are array
\* indices first, in ascending numeric order, then the other keys in the order
\* provided.
C3_UrlInObjectKeysOrder ==
  \A c \in Started :
    (invoked[c].op = "get" /\ Issued(c)) =>
      LET rcfg == invoked[c].rcfg
          url == requests[c][1].url
          sp == url.searchParams
          provided == ProvidedEntries(rcfg.query)
      IN /\ url.origin =
              (IF rcfg.endpoint.origin # "" THEN rcfg.endpoint.origin
               ELSE IF apiUrl \in {Undefined, Str("")} THEN "http://localhost:3001"
               ELSE apiUrl.v)
         /\ url.path = rcfg.endpoint.path
         /\ Len(sp) = Len(provided)
         /\ Range(sp) = Range(provided)
         /\ \A i, j \in DOMAIN sp :
              i < j =>
                /\ IsIndexKey(sp[j][1]) =>
                     IsIndexKey(sp[i][1]) /\ KeyIndex(sp[i][1]) < KeyIndex(sp[j][1])
                /\ (~IsIndexKey(sp[i][1]) /\ ~IsIndexKey(sp[j][1])) =>
                     PositionIn(provided, sp[i]) < PositionIn(provided, sp[j])

C3_Witness ==
  \E c \in Started :
    /\ invoked[c].op = "get" /\ Issued(c)
    /\ invoked[c].rcfg.query = Obj(<< <<"page", Str("2")>>, <<"2", Str("2")>> >>)
    /\ requests[c][1].url =
         [origin |-> "http://localhost:3001", path |-> "/users",
          searchParams |-> << <<"2", "2">>, <<"page", "2">> >>]

\* C4: for every call through an operation of withCredentials(), the headers of
\* the request contain credentials: include and Content-Type: application/json
\* whatever the caller supplied for those two keys, and every other header the
\* caller supplied, unchanged.
C4_CredentialHeadersWin ==
  \A c \in Started :
    (wrapped[c].used /\ Issued(c)) =>
      LET h == requests[c][1].headers
          custom == wrapped[c].rcfg.headers
      IN /\ Get(h, "credentials") = Str("include")
         /\ Get(h, "Content-Type") = Str("application/json")
         /\ \A k \in Range(InsertionKeys(custom)) \ {"credentials", "Content-Type"} :
              HasKey(h, k) /\ Get(h, k) = Get(custom, k)

C4_Witness ==
  \E c \in Started :
    /\ wrapped[c].used /\ Issued(c)
    /\ Get(wrapped[c].rcfg.headers, "Content-Type") = Str("text/plain")
    /\ Get(wrapped[c].rcfg.headers, "X-Trace") = Str("omit")
    /\ Get(requests[c][1].headers, "Content-Type") = Str("application/json")
    /\ Get(requests[c][1].headers, "X-Trace") = Str("omit")

\* C5: for every direct operation, upload included, the headers of the request
\* contain every key of the caller's headers with the caller's value, and
\* Content-Type: application/json unless the caller's headers have a
\* Content-Type key.
C5_CallerHeadersWin ==
  \A c \in Started :
    (~wrapped[c].used /\ Issued(c)) =>
      LET h == requests[c][1].headers
          custom == invoked[c].rcfg.headers
      IN /\ \A k \in Range(InsertionKeys(custom)) :
              HasKey(h, k) /\ Get(h, k) = Get(custom, k)
         /\ ~HasKey(custom, "Content-Type") =>
              Get(h, "Content-Type") = Str("application/json")

C5_Witness ==
  \E c \in Started :
    /\ ~wrapped[c].used /\ Issued(c) /\ invoked[c].op = "upload"
    /\ Get(invoked[c].rcfg.headers, "Content-Type") = Str("text/plain")
    /\ Get(requests[c][1].headers, "Content-Type") = Str("text/plain")

\* C6 as stated: the body upload sends is a form with exactly one field per
\* entry of data, each with the entry's key and value, in key order.
C6_FieldsCarryValues ==
  \A c \in Started :
    (invoked[c].op = "upload" /\ Issued(c)) =>
      LET data == invoked[c].rcfg.data
          keys == ObjectKeys(data)
          body == requests[c][1].body
      IN /\ body.kind = "form"
         /\ body.fields = [i \in DOMAIN keys |-> <<keys[i], Get(data, keys[i])>>]

\* C6 amended: the body upload sends is a form with exactly one field per entry
\* of data, in key order, each with the entry's key and the entry's value as
\* FormData stores it: a string or a file unchanged, any other value (a number,
\* undefined) as its string form.
C6_FieldsCarryStoredValues ==
  \A c \in Started :
    (invoked[c].op = "upload" /\ Issued(c)) =>
      LET data == invoked[c].rcfg.data
          keys == ObjectKeys(data)
          body == requests[c][1].body
      IN /\ body.kind = "form"
         /\ Len(body.fields) = Len(keys)
         /\ \A i \in DOMAIN keys :
              LET x == Get(data, keys[i])
              IN /\ body.fields[i][1] = keys[i]
                 /\ body.fields[i][2] =
                      (CASE x.t \in {"string", "file"} -> x
                         [] x.t = "undefined" -> Str("undefined")
                         [] OTHER -> Str(x.v))

C6_Witness ==
  \E c \in Started :
    /\ invoked[c].op = "upload" /\ Issued(c)
    /\ invoked[c].rcfg.data = Obj(<< <<"name", File("a.png")>>, <<"1", Undefined>> >>)
    /\ requests[c][1].body.fields =
         << <<"1", Str("undefined")>>, <<"name", File("a.png")>> >>

\* C7: for delete, post, put, patch and upload, when config.query is present
\* the URL of the request carries the query entries exactly as get's does for
\* the same endpoint and query.
C7_QuerySharedByAllOperations ==
  \A c \in Started :
    (invoked[c].op \in {"delete", "post", "put", "patch", "upload"} /\ Issued(c)
       /\ invoked[c].rcfg.query # Undefined) =>
      requests[c][1].url = getURL(invoked[c].rcfg)

\* C8: for every operation, a response whose body is not JSON makes the call
\* throw the parse failure, with no status/statusText/url/errors attached,
\* whatever the status; it never throws the request-failed error.
C8_ParseFailureFirst ==
  \A c \in Started :
    (Answered(c) /\ ~response[c].isJson) =>
      /\ result[c].kind = "thrown"
      /\ result[c].error.name = "SyntaxError"
      /\ ~result[c].error.hasCause
      /\ result[c].error.cause = NoCause

C8_Witness ==
  \E c \in Started :
    /\ Answered(c) /\ ~response[c].isJson /\ response[c].status = 404
    /\ result[c] = Thrown(SyntaxError)

\* C9: every call issues exactly one request and ends in exactly one of:
\* returning the parsed body, throwing the request-failed error, throwing the
\* parse failure, throwing the transport's failure unchanged; no failure
\* becomes a returned value and none is followed by a second request.
C9_OneRequestOneOutcome ==
  \A c \in Started :
    /\ pc[c] # "idle" => Len(requests[c]) = 1
    /\ pc[c] = "done" =>
         \/ /\ response[c] # NoResponse /\ Success(response[c]) /\ response[c].isJson
            /\ result[c] = Returned(response[c].json)
         \/ /\ response[c] # NoResponse /\ ~Success(response[c]) /\ response[c].isJson
            /\ result[c].kind = "thrown"
            /\ result[c].error.name = "Error" /\ result[c].error.hasCause
         \/ /\ response[c] # NoResponse /\ ~response[c].isJson
            /\ result[c] = Thrown(SyntaxError)
         \/ /\ response[c] = NoResponse
            /\ result[c] = Thrown(NetworkError)

\* C10: with several calls in flight and the responses and body parses
\* arriving in any order, each call sends its own request, built from its own
\* input alone, identical requests included, and settles as its own response
\* alone decides: the transport's failure when its fetch failed, otherwise the
\* parse failure, the request-failed error or the body of its own response.
C10_CallsIndependent ==
  \A c \in Started :
    /\ pc[c] # "idle" =>
         /\ Len(requests[c]) = 1
         /\ requests[c][1].url = getURL(invoked[c].rcfg)
         /\ requests[c][1].headers = getHeaders(invoked[c].rcfg.headers)
    /\ pc[c] # "done" => result[c] = Pending
    /\ pc[c] = "done" =>
         IF response[c] = NoResponse THEN result[c] = Thrown(NetworkError)
         ELSE IF ~response[c].isJson THEN result[c] = Thrown(SyntaxError)
         ELSE IF Success(response[c]) THEN result[c] = Returned(response[c].json)
         ELSE /\ result[c].kind = "thrown"
              /\ result[c].error.cause.status = response[c].status
              /\ result[c].error.cause.url = response[c].url

C10_Witness ==
  \E c, d \in Started :
    /\ c < d
    /\ requests[c] = requests[d] /\ Issued(c)
    /\ pc[c] = "json" /\ response[c].status = 200 /\ response[c].isJson
    /\ pc[d] = "done" /\ response[d].status = 404
    /\ result[d].kind = "thrown" /\ result[d].error.message = "invalid name"

====
